---- MODULE Spec2Model ----
(***************************************************************************)
(* Model of the expression calculator: calc::calculate runs getTokens,     *)
(* RPN_Builder::operator() and the postfix evaluator on one C string.      *)
(*                                                                         *)
(* Strings are sequences of one-character strings.  A double is modelled   *)
(* by a record [exact, v]: an integer v of magnitude at most MaxAbs that   *)
(* the double holds exactly, or the abstract value Inexact standing for    *)
(* every other double (fractions, rounded results, infinities and NaN).    *)
(***************************************************************************)
EXTENDS Integers, Sequences, FiniteSets, TLC

\* ------------------------------------------------------------------ bounds
\* Number of whitespace separated pieces of an enumerated equation.
MaxTokens == 5
\* Length of the character strings given to the tokenizer alone.
MaxChars == 4
\* Largest magnitude of a double that the model keeps as an exact integer.
MaxAbs == 10000
\* Length of the equation the buttons of the Widget write.
MaxLine == 5

\* ------------------------------------------------------------- characters
NUL == "NUL"

At(s, i) == IF i >= 1 /\ i <= Len(s) THEN s[i] ELSE NUL

\* The symbol characters without the open parenthesis.
is_symbol_token_few(c) == c \in {"-", "+", "*", "/", "^", ")"}

is_symbol_token(c) == c \in {"-", "+", "*", "/", "^", "(", ")"}

\* isspace in the "C" locale, on the characters the strings are written with
\* (no string holds a vertical tab or a form feed).
isspace(c) == c \in {" ", "\t", "\n", "\r"}

isdigit(c) == c \in {"0", "1", "2", "3", "4", "5", "6", "7", "8", "9"}

DigitVal(c) ==
    CASE c = "0" -> 0 [] c = "1" -> 1 [] c = "2" -> 2 [] c = "3" -> 3
      [] c = "4" -> 4 [] c = "5" -> 5 [] c = "6" -> 6 [] c = "7" -> 7
      [] c = "8" -> 8 [] c = "9" -> 9

\* ----------------------------------------------------------------- doubles
Num(n) == [exact |-> TRUE, v |-> n]

Inexact == [exact |-> FALSE, v |-> 0]

Abs(n) == IF n < 0 THEN 0 - n ELSE n

Fit(n) == IF n >= -MaxAbs /\ n <= MaxAbs THEN Num(n) ELSE Inexact

\* base^n for n >= 0, or -1 as soon as the magnitude exceeds MaxAbs.
RECURSIVE PowCap(_, _)
PowCap(base, n) ==
    IF n = 0 THEN 1
    ELSE LET r == PowCap(base, n - 1)
         IN  IF r = -1 THEN -1
             ELSE IF r * base > MaxAbs \/ r * base < -MaxAbs THEN -1
             ELSE r * base

\* ------------------------------------------------------------------ strtod
\* First index at or after i of s that holds no decimal digit.
RECURSIVE DigitsEnd(_, _)
DigitsEnd(s, i) == IF isdigit(At(s, i)) THEN DigitsEnd(s, i + 1) ELSE i

\* Value of the digit run s[i..j-1], or -1 once it exceeds MaxAbs.
RECURSIVE DigitsVal(_, _, _, _)
DigitsVal(s, i, j, acc) ==
    IF i >= j THEN acc
    ELSE IF acc = -1 \/ acc * 10 + DigitVal(s[i]) > MaxAbs THEN -1
    ELSE DigitsVal(s, i + 1, j, acc * 10 + DigitVal(s[i]))

\* m * 10^e as a double of the model (m >= 0, or -1 for a mantissa too large).
RECURSIVE Scale10(_, _)
Scale10(m, e) ==
    IF m = -1 THEN Inexact
    ELSE IF m = 0 THEN Num(0)
    ELSE IF e = 0 THEN Num(m)
    ELSE IF e > 0 THEN (IF m * 10 > MaxAbs THEN Inexact ELSE Scale10(m * 10, e - 1))
    ELSE IF m % 10 = 0 THEN Scale10(m \div 10, e + 1)
    ELSE Inexact

\* strtod(str + p, &endptr) on decimal input: the longest prefix of the form
\* digits [. digits] [e [sign] digits] with at least one mantissa digit.
\* end is the index endptr points to (end = p: no conversion was made).
\* The strings given to it hold none of the letters x, p, i, n, f, so the
\* hexadecimal, "inf" and "nan" forms of strtod cannot occur, and no call
\* starts at a white space or sign character.
strtod(s, p) ==
    LET i1 == DigitsEnd(s, p)
        hasPoint == At(s, i1) = "."
        i2 == IF hasPoint THEN DigitsEnd(s, i1 + 1) ELSE i1
        nfrac == IF hasPoint THEN i2 - (i1 + 1) ELSE 0
        hasMant == (i1 - p) + nfrac >= 1
        j0 == i2 + 1
        j1 == IF At(s, j0) \in {"+", "-"} THEN j0 + 1 ELSE j0
        k == DigitsEnd(s, j1)
        hasExp == At(s, i2) \in {"e", "E"} /\ k > j1
        expAbs == IF hasExp THEN DigitsVal(s, j1, k, 0) ELSE 0
        expVal == IF At(s, j0) = "-" THEN 0 - expAbs ELSE expAbs
        mant == DigitsVal(s, i1 + 1, i2, DigitsVal(s, p, i1, 0))
    IN  IF ~hasMant THEN [end |-> p, val |-> Num(0)]
        ELSE [end |-> IF hasExp THEN k ELSE i2,
              val |-> IF expAbs = -1 THEN (IF mant = 0 THEN Num(0) ELSE Inexact)
                      ELSE Scale10(mant, expVal - nfrac)]

\* This function converts the string to a number only if the full string
\* presents a number.
str_to_number(str) ==
    LET r == strtod(str, 1)
    IN  [ok |-> r.end # 1 /\ r.end = Len(str) + 1, number |-> r.val]

\* --------------------------------------------------------------- getTokens
RECURSIVE SkipSpace(_, _)
SkipSpace(s, c) == IF isspace(At(s, c)) THEN SkipSpace(s, c + 1) ELSE c

\* End of a word that started before c: the first index at or after c that
\* holds the terminator, a white space or a symbol character.
RECURSIVE WordEnd(_, _)
WordEnd(s, c) ==
    IF At(s, c) = NUL \/ isspace(At(s, c)) \/ is_symbol_token(At(s, c)) THEN c
    ELSE WordEnd(s, c + 1)

\* One pass of the outer loop of getTokens entered at index c (*c != '\0'):
\* the index it leaves c at and the token it collected (<<>>: none).
TokPass(s, c) ==
    LET start == SkipSpace(s, c)
        ch == At(s, start)
    IN  IF ch = NUL THEN [c |-> start, token |-> <<>>]
        ELSE IF is_symbol_token(ch) THEN [c |-> start + 1, token |-> <<ch>>]
        ELSE IF isdigit(ch) \/ ch = "." THEN
            LET endptr == strtod(s, start).end
            IN  [c |-> endptr, token |-> SubSeq(s, start, endptr - 1)]
        ELSE LET e == WordEnd(s, start + 1)
             IN  [c |-> e, token |-> SubSeq(s, start, e - 1)]

\* getTokens(expression): the token vector, or hang = TRUE when a pass leaves
\* c and the vector as they were, so that the outer loop repeats for ever.
RECURSIVE TokLoop(_, _, _)
TokLoop(s, c, toks) ==
    IF At(s, c) = NUL THEN [hang |-> FALSE, tokens |-> toks]
    ELSE LET r == TokPass(s, c)
         IN  IF r.c = c /\ r.token = <<>> THEN [hang |-> TRUE, tokens |-> toks]
             ELSE TokLoop(s, r.c, IF r.token = <<>> THEN toks ELSE Append(toks, r.token))

\* The null pointer: a value that is no string of characters.
nullptr == <<"nullptr">>

getTokens(expression) ==
    IF expression = nullptr THEN [hang |-> FALSE, tokens |-> <<>>]
    ELSE TokLoop(expression, 1, <<>>)

\* ------------------------------------------------------------- RPN_Builder
\* enum class TokType
TokType == {"number", "var", "open", "close", "un_min", "add", "sub", "mul",
            "div", "pow", "sqrt", "undefined"}

\* tokens_map_: the tokens with a fixed type.
tokens_map_ ==
    [t \in {<<"(">>, <<")">>, <<"+">>, <<"-">>, <<"*">>, <<"/">>, <<"^">>,
            <<"s", "q", "r", "t">>} |->
        CASE t = <<"(">> -> "open"
          [] t = <<")">> -> "close"
          [] t = <<"+">> -> "add"
          [] t = <<"-">> -> "sub"
          [] t = <<"*">> -> "mul"
          [] t = <<"/">> -> "div"
          [] t = <<"^">> -> "pow"
          [] t = <<"s", "q", "r", "t">> -> "sqrt"]

\* prev_curr_token_map_: previous token type |-> permitted current types.
prev_curr_token_map_ ==
    [p \in TokType \ {"sqrt"} |->
        CASE p \in {"number", "var", "close"} ->
                {"add", "sub", "mul", "div", "pow", "close"}
          [] p \in {"un_min", "add", "sub", "mul", "div", "pow"} ->
                {"number", "var", "open", "sqrt"}
          [] p \in {"undefined", "open"} ->
                {"number", "var", "open", "un_min", "sqrt"}]
    @@ [p \in {"sqrt"} |-> {"open"}]

\* Converts input token to token type (and the number it presents).
to_token_type(token) ==
    IF token \in DOMAIN tokens_map_ THEN [ttype |-> tokens_map_[token], number |-> Num(0)]
    ELSE LET r == str_to_number(token)
         IN  IF r.ok THEN [ttype |-> "number", number |-> r.number]
             ELSE [ttype |-> "var", number |-> Num(0)]

\* The value that stands for a thrown std::runtime_error("Incorrect expression").
THROW == "throw"

\* The conversion that does not know the sqrt function.
to_operation_nosqrt(ttype) ==
    IF ttype \in {"un_min", "add", "sub", "mul", "div", "pow"} THEN ttype
    ELSE THROW

\* Converts private TokType to public calc::Operation.
to_operation(ttype) ==
    IF ttype \in {"un_min", "add", "sub", "mul", "div", "pow", "sqrt"} THEN ttype
    ELSE THROW

\* The priorities with multiplication and division no higher than addition.
priority_flat(ttype) ==
    CASE ttype \in {"open", "close"} -> 0
      [] ttype \in {"add", "sub", "mul", "div"} -> 1
      [] ttype = "pow" -> 3
      [] ttype = "un_min" -> 4
      [] ttype = "sqrt" -> 5
      [] OTHER -> -1

\* Returns priority of math operations and parentheses (-1: it throws).
priority(ttype) ==
    CASE ttype \in {"open", "close"} -> 0
      [] ttype \in {"add", "sub"} -> 1
      [] ttype \in {"mul", "div"} -> 2
      [] ttype = "pow" -> 3
      [] ttype = "un_min" -> 4
      [] ttype = "sqrt" -> 5
      [] OTHER -> -1

\* The check with a subtraction sign permitted after an operator.
is_correct_token_order_minus(prev_ttype, curr_ttype) ==
    IF curr_ttype = "undefined" \/ prev_ttype \notin DOMAIN prev_curr_token_map_ THEN THROW
    ELSE IF curr_ttype \in prev_curr_token_map_[prev_ttype] THEN "true"
    ELSE IF curr_ttype = "sub" /\ prev_ttype \in {"un_min", "add", "sub", "mul", "div", "pow"}
    THEN "true"
    ELSE "false"

\* Checks correctness of tokens order - previous and current tokens.
is_correct_token_order(prev_ttype, curr_ttype) ==
    IF curr_ttype = "undefined" \/ prev_ttype \notin DOMAIN prev_curr_token_map_ THEN THROW
    ELSE IF curr_ttype \in prev_curr_token_map_[prev_ttype] THEN "true" ELSE "false"

\* Messages are sequences of string fragments; a token adds its characters.
extra_parentheses_happened(type) == <<"Found extra ", type, " parentheses.">>

ttype_to_str(ttype, token) ==
    CASE ttype = "number" -> <<"number ">> \o token
      [] ttype = "var" -> <<"variable ">> \o token
      [] ttype = "open" -> <<"open parenthesis">>
      [] ttype = "close" -> <<"close parenthesis">>
      [] ttype = "un_min" -> <<"unary minus '-'">>
      [] ttype = "add" -> <<"addition sign '+'">>
      [] ttype = "sub" -> <<"subtraction sign '-'">>
      [] ttype = "mul" -> <<"multiplication sign '*'">>
      [] ttype = "div" -> <<"division sign '/'">>
      [] ttype = "pow" -> <<"power sign '^'">>
      [] ttype = "sqrt" -> <<"sqrt function">>
      [] OTHER -> <<"undefined">>

incorrect_token_order_happened(prev_ttype, prev_token, curr_ttype, curr_token) ==
    <<"Incorrect order of operands and operations in the expression.\n", "The ">>
    \o ttype_to_str(curr_ttype, curr_token) \o <<" cannot be ">>
    \o (IF prev_ttype = "undefined" THEN <<"the first in an expression.">>
        ELSE <<"after the ">> \o ttype_to_str(prev_ttype, prev_token))

no_operands_found == <<"Expression does not contain any operands.">>

\* Items of rp_notation_ (calc::Value): an Operation, a string or a double.
OpItem(op) == [kind |-> "op", op |-> op]
VarItem(token) == [kind |-> "var", name |-> token]
NumItem(number) == [kind |-> "num", val |-> number]

Top(stk) == stk[Len(stk)]
Pop(stk) == SubSeq(stk, 1, Len(stk) - 1)

\* case TokType::close: the loop that moves operations to the notation until
\* the stack is empty or an open parenthesis is on top.
RECURSIVE CloseLoop(_, _)
CloseLoop(operations, rp) ==
    IF operations = <<>> \/ Top(operations) = "open"
    THEN [threw |-> FALSE, operations |-> operations, rp |-> rp]
    ELSE IF to_operation(Top(operations)) = THROW
    THEN [threw |-> TRUE, operations |-> operations, rp |-> rp]
    ELSE CloseLoop(Pop(operations), Append(rp, OpItem(to_operation(Top(operations)))))

top_prior(operations) == IF operations = <<>> THEN 0 ELSE priority(Top(operations))

\* case of an operator: while (top_prior >= curr_prior) move the top operation
\* to the notation.  operations.top() of an empty stack is never evaluated,
\* because top_prior is then 0 and curr_prior is at least 1.
RECURSIVE PriorLoop(_, _, _)
PriorLoop(operations, rp, curr_prior) ==
    IF top_prior(operations) = -1
    THEN [threw |-> TRUE, operations |-> operations, rp |-> rp]
    ELSE IF top_prior(operations) >= curr_prior
    THEN IF to_operation(Top(operations)) = THROW
         THEN [threw |-> TRUE, operations |-> operations, rp |-> rp]
         ELSE PriorLoop(Pop(operations),
                        Append(rp, OpItem(to_operation(Top(operations)))), curr_prior)
    ELSE [threw |-> FALSE, operations |-> operations, rp |-> rp]

\* The locals and members of RPN_Builder::operator() when it is entered.
BuilderStart ==
    [status |-> "scan", rp |-> <<>>, what |-> <<>>, operations |-> <<>>,
     prev_ttype |-> "undefined", prev_token |-> <<>>, operand_count |-> 0]

\* The reclassification made for the first token only.
maybe_un_min_first(prev_ttype, ttype) ==
    IF prev_ttype = "undefined" /\ ttype = "sub" THEN "un_min" ELSE ttype

\* if (maybe_un_min && curr_ttype == TokType::sub) curr_ttype = TokType::un_min;
maybe_un_min(prev_ttype, ttype) ==
    IF (prev_ttype = "undefined" \/ prev_ttype = "open") /\ ttype = "sub"
    THEN "un_min" ELSE ttype

\* The close case that goes on when no open parenthesis is on the stack.
CloseCase_lenient(b, token, r) ==
    IF r.threw THEN [b EXCEPT !.status = "throw", !.rp = r.rp]
    ELSE [b EXCEPT !.rp = r.rp,
                   !.operations = IF r.operations = <<>> THEN <<>> ELSE Pop(r.operations),
                   !.prev_ttype = "close", !.prev_token = token]

\* case TokType::close, after its loop has left r.
CloseCase(b, token, r) ==
    IF r.threw THEN [b EXCEPT !.status = "throw", !.rp = r.rp]
    ELSE IF r.operations = <<>> THEN
        [b EXCEPT !.status = "false", !.rp = r.rp, !.operations = r.operations,
                  !.what = extra_parentheses_happened("close")]
    ELSE [b EXCEPT !.rp = r.rp, !.operations = Pop(r.operations),
                   !.prev_ttype = "close", !.prev_token = token]

\* The operator case that does not push the current operator.
OperatorCase_drop(b, token, curr_ttype, r) ==
    IF r.threw THEN [b EXCEPT !.status = "throw", !.rp = r.rp]
    ELSE [b EXCEPT !.rp = r.rp, !.operations = r.operations,
                   !.prev_ttype = curr_ttype, !.prev_token = token]

\* case of an operator, after its loop has left r.
OperatorCase(b, token, curr_ttype, r) ==
    IF r.threw THEN [b EXCEPT !.status = "throw", !.rp = r.rp]
    ELSE [b EXCEPT !.rp = r.rp, !.operations = Append(r.operations, curr_ttype),
                   !.prev_ttype = curr_ttype, !.prev_token = token]

\* The switch (curr_ttype) and the two assignments after it.
SwitchToken(b, token, number, curr_ttype) ==
    CASE curr_ttype = "number" ->
            [b EXCEPT !.rp = Append(b.rp, NumItem(number)),
                      !.operand_count = b.operand_count + 1,
                      !.prev_ttype = curr_ttype, !.prev_token = token]
      [] curr_ttype = "var" ->
            [b EXCEPT !.rp = Append(b.rp, VarItem(token)),
                      !.operand_count = b.operand_count + 1,
                      !.prev_ttype = curr_ttype, !.prev_token = token]
      [] curr_ttype \in {"sqrt", "open"} ->
            [b EXCEPT !.operations = Append(b.operations, curr_ttype),
                      !.prev_ttype = curr_ttype, !.prev_token = token]
      [] curr_ttype = "close" ->
            CloseCase(b, token, CloseLoop(b.operations, b.rp))
      [] curr_ttype \in {"add", "sub", "mul", "div", "pow", "un_min"} ->
            OperatorCase(b, token, curr_ttype,
                         PriorLoop(b.operations, b.rp, priority(curr_ttype)))
      [] OTHER -> [b EXCEPT !.status = "throw"]

\* The loop body without the return on an incorrect token order.
CheckedToken_unchecked(b, token, number, curr_ttype, order) ==
    IF order = THROW THEN [b EXCEPT !.status = "throw"]
    ELSE SwitchToken(b, token, number, curr_ttype)

\* The order check of the loop body and what follows it.
CheckedToken(b, token, number, curr_ttype, order) ==
    IF order = THROW THEN [b EXCEPT !.status = "throw"]
    ELSE IF order = "false" THEN
        [b EXCEPT !.status = "false",
                  !.what = incorrect_token_order_happened(
                               b.prev_ttype, b.prev_token, curr_ttype, token)]
    ELSE SwitchToken(b, token, number, curr_ttype)

TypedToken(b, token, number, curr_ttype) ==
    CheckedToken(b, token, number, curr_ttype,
                 is_correct_token_order(b.prev_ttype, curr_ttype))

ClassifiedToken(b, token, tt) ==
    TypedToken(b, token, tt.number, maybe_un_min(b.prev_ttype, tt.ttype))

\* The body of the for loop of RPN_Builder::operator() for one token.
\* status: "scan" (go on), "false" (returned false), "throw".
BuilderToken(b, token) == ClassifiedToken(b, token, to_token_type(token))

\* The for loop over expression_tokens, from token number i on.
RECURSIVE BuilderScan(_, _, _)
BuilderScan(b, expression_tokens, i) ==
    IF b.status # "scan" \/ i > Len(expression_tokens) THEN b
    ELSE BuilderScan(BuilderToken(b, expression_tokens[i]), expression_tokens, i + 1)

\* After the scan: the loop that empties the operation stack.
RECURSIVE DrainLoop(_)
DrainLoop(b) ==
    IF b.operations = <<>> THEN [b EXCEPT !.status = "true"]
    ELSE IF Top(b.operations) = "open" THEN
        [b EXCEPT !.status = "false", !.what = extra_parentheses_happened("open")]
    ELSE IF to_operation(Top(b.operations)) = THROW THEN [b EXCEPT !.status = "throw"]
    ELSE DrainLoop([b EXCEPT !.rp = Append(b.rp, OpItem(to_operation(Top(b.operations)))),
                             !.operations = Pop(b.operations)])

\* The operand count check made after the drain loop instead of before it.
AfterScan_drainfirst(b) ==
    IF b.status # "scan" THEN b
    ELSE IF DrainLoop(b).status = "true" /\ b.operand_count = 0 THEN
        [b EXCEPT !.status = "false", !.what = no_operands_found]
    ELSE DrainLoop(b)

\* What follows the for loop: the operand count check and the drain loop.
AfterScan(b) ==
    IF b.status # "scan" THEN b
    ELSE IF b.operand_count = 0 THEN
        [b EXCEPT !.status = "false", !.what = no_operands_found]
    ELSE DrainLoop(b)

\* bool RPN_Builder::operator()(const Tokens&): status "true", "false" or
\* "throw", with rp_notation_ in rp and what_happened_message_ in what.
Builder(expression_tokens) ==
    AfterScan(BuilderScan(BuilderStart, expression_tokens, 1))

\* --------------------------------------------------------------- evaluator
\* What e.what() is for the two exceptions of the evaluator.
IncorrectExpression == <<"Incorrect expression">>
DivisionOnZero == <<"Divizion on zero is not defined">>

\* How the build orders the two pop_value calls that are the arguments of
\* op(pop_value(stack), pop_value(stack)); the language leaves it open.
\* "left_to_right": a is popped first; "right_to_left": b is popped first.
ArgOrders == {"left_to_right", "right_to_left"}

\* double pop_value(std::stack<double>&)
pop_value(stk) ==
    IF stk = <<>> THEN [threw |-> TRUE, value |-> Num(0), stack |-> stk]
    ELSE [threw |-> FALSE, value |-> Top(stk), stack |-> Pop(stk)]

\* pow(a, b) on exact integers.
PowVal(a, b) ==
    IF b >= 0 THEN (IF PowCap(a, b) = -1 THEN Inexact ELSE Num(PowCap(a, b)))
    ELSE IF a = 1 THEN Num(1)
    ELSE IF a = -1 THEN (IF b % 2 = 0 THEN Num(1) ELSE Num(-1))
    ELSE Inexact

\* sqrt(a) on an exact integer: the root of a perfect square, else Inexact.
RECURSIVE RootFrom(_, _)
RootFrom(a, r) ==
    IF r * r = a THEN Num(r) ELSE IF r * r > a THEN Inexact ELSE RootFrom(a, r + 1)

SqrtVal(a) == IF a < 0 THEN Inexact ELSE RootFrom(a, 0)

Ret(v) == [threw |-> FALSE, what |-> <<>>, value |-> v]
Thrown(msg) == [threw |-> TRUE, what |-> msg, value |-> Num(0)]

\* The lambdas of calculate(op, stack) for the binary operations: the set of
\* outcomes of op(a, b).  Only b == 0.0 on an Inexact b has two outcomes.
BinaryLambda(op, a, b) ==
    IF op = "div" /\ ~b.exact THEN {Thrown(DivisionOnZero), Ret(Inexact)}
    ELSE IF op = "div" /\ b.v = 0 THEN {Thrown(DivisionOnZero)}
    ELSE IF ~a.exact \/ ~b.exact THEN {Ret(Inexact)}
    ELSE CASE op = "add" -> {Ret(Fit(a.v + b.v))}
           [] op = "sub" -> {Ret(Fit(a.v - b.v))}
           [] op = "mul" -> {Ret(Fit(a.v * b.v))}
           [] op = "div" -> {IF Abs(a.v) % Abs(b.v) # 0 THEN Ret(Inexact)
                             ELSE IF (a.v < 0) = (b.v < 0)
                             THEN Ret(Fit(Abs(a.v) \div Abs(b.v)))
                             ELSE Ret(Fit(0 - (Abs(a.v) \div Abs(b.v))))}
           [] op = "pow" -> {Ret(PowVal(a.v, b.v))}

\* The lambdas for the unary operations.
UnaryLambda(op, a) ==
    IF ~a.exact THEN Ret(Inexact)
    ELSE CASE op = "un_min" -> Ret(Num(0 - a.v))
           [] op = "sqrt" -> Ret(SqrtVal(a.v))

\* template binary_operation: the outcomes of op(pop_value(stack),
\* pop_value(stack)) and the stack the two calls leave.
binary_operation(op, stk, order) ==
    LET p1 == pop_value(stk)
        p2 == pop_value(p1.stack)
        a == IF order = "left_to_right" THEN p1.value ELSE p2.value
        b == IF order = "left_to_right" THEN p2.value ELSE p1.value
    IN  IF p1.threw \/ p2.threw
        THEN {[out |-> Thrown(IncorrectExpression), stack |-> p2.stack, underflow |-> TRUE]}
        ELSE {[out |-> o, stack |-> p2.stack, underflow |-> FALSE] : o \in BinaryLambda(op, a, b)}

\* template unary_operation
unary_operation(op, stk) ==
    LET p1 == pop_value(stk)
    IN  IF p1.threw
        THEN {[out |-> Thrown(IncorrectExpression), stack |-> p1.stack, underflow |-> TRUE]}
        ELSE {[out |-> UnaryLambda(op, p1.value), stack |-> p1.stack, underflow |-> FALSE]}

\* double calculate(calc::Operation op, std::stack<double>& stack)
calculate_op(op, stk, order) ==
    IF op \in {"add", "sub", "mul", "div", "pow"} THEN binary_operation(op, stk, order)
    ELSE IF op \in {"un_min", "sqrt"} THEN unary_operation(op, stk)
    ELSE {[out |-> Thrown(IncorrectExpression), stack |-> stk, underflow |-> FALSE]}

\* calc::Result
Result(what, result, ok) == [what |-> what, result |-> result, ok |-> ok]
NoResult == [what |-> <<"(none)">>, result |-> Num(0), ok |-> FALSE]

\* The doubles a read of stack.top() on an empty stack may produce.
UBValues == {Num(0), Num(1), Inexact}

\* ------------------------------------------------------------------ inputs
\* The pieces the enumerated equations are written with.
Pieces == {<<"0">>, <<"2">>, <<"3">>, <<"x">>, <<"+">>, <<"-">>, <<"*">>, <<"/">>,
           <<"^">>, <<"(">>, <<")">>, <<"s", "q", "r", "t">>}

\* TRUE when the for loop of the builder runs through all of ts.
ScanPasses(ts) == BuilderScan(BuilderStart, ts, 1).status = "scan"

\* Equations written as they stand in the documentation of the calculator,
\* and one as the buttons write it.
Examples ==
    {<<"(", "2", " ", "+", " ", "3", ")", " ", "*", " ", "4">>,
     <<"2", " ", "+", " ", "3", " ", "*", " ", "4">>,
     <<"2", " ", "^", " ", "3", " ", "^", " ", "2">>,
     <<"3", " ", "-", " ", "-", "5">>,
     <<"3", " ", "-", " ", "(", "-", "5", ")">>,
     <<"-", "3", " ", "+", " ", "5">>,
     <<"s", "q", "r", "t", "(", "1", "6", ")">>,
     <<"s", "q", "r", "t", "(", "2", "+", "2", ")">>,
     <<"s", "q", "r", "t", "(", "4", ")", " ", "^", " ", "2">>,
     <<"(", "2", " ", "+", " ", "3">>,
     <<"2", " ", "+", " ", "3", ")">>,
     <<"5", " ", "/", " ", "0">>,
     <<"0", " ", "/", " ", "5">>,
     <<"+", " ", "2">>,
     <<"2", " ", "3">>,
     <<"(", "x", ")">>,
     <<" ", " ">>,
     <<" ", "\t", "\n">>,
     <<".">>,
     <<"1", "e", "+", "5">>}

\* The characters of the strings given to the tokenizer alone.
TokAlphabet == {"2", ".", "e", "+", "-", " ", "x", "("}

CharStrings == UNION {[1..n -> TokAlphabet] : n \in 0..MaxChars}

\* ------------------------------------------------------------------ Widget
\* The texts the buttons append to the equation (pBtn_2, pBtn_leftBrace,
\* pBtn_rightBrace, pBtn_OpSub, pBtn_OpDiv, pBtn_FuncPow2, pBtn_FuncSqrt).
ButtonTexts == {<<"2">>, <<"(">>, <<")">>, <<" ", "-", " ">>, <<" ", "/", " ">>,
                <<" ", "^", " ", "2">>, <<"s", "q", "r", "t", "(">>}

\* A character that Latin-1 does not have (the euro sign).
EURO == "EURO"

\* The texts typed into the line edit as a whole.
TypedTexts == {<<"x">>, <<EURO>>}

\* QString::toLatin1(): a character that Latin-1 does not have becomes '?'.
toLatin1(str) == [i \in 1..Len(str) |-> IF str[i] = EURO THEN "?" ELSE str[i]]

\* The decimal digits of n >= 0.
RECURSIVE DecimalText(_)
DecimalText(n) ==
    IF n < 10 THEN <<<<"0", "1", "2", "3", "4", "5", "6", "7", "8", "9">>[n + 1]>>
    ELSE DecimalText(n \div 10) \o DecimalText(n % 10)

\* The text of a double that the model does not keep: digits with a point or
\* an exponent, "inf" or "nan".  It is one opaque text.
InexactText == <<"inexact">>

\* QString::number(double), format 'g' with precision 6: the texts it may
\* give.  An exact integer below 10^6 is written with its digits; Num(0)
\* stands for both zeros of a double, and -0.0 is written "-0".
QString_number(result) ==
    IF ~result.exact THEN {InexactText}
    ELSE IF result.v = 0 THEN {<<"0">>, <<"-", "0">>}
    ELSE IF result.v < 0 THEN {<<"-">> \o DecimalText(0 - result.v)}
    ELSE {DecimalText(result.v)}

\* The members and the fields of the form of the Widget, and the last event.
WidgetStart ==
    [m_equation |-> <<>>, equationLine |-> <<>>, errorField |-> <<>>, event |-> "none"]

\* ------------------------------------------------------------------- state
VARIABLES
    widget,      \* m_equation, ui->equationLine, ui->errorField, last event
    argOrder,    \* the argument evaluation order of the build
    equation,    \* the string calc::calculate is called with
    pc,          \* where the call is
    c,           \* getTokens: index of the character c points to
    passes,      \* getTokens: passes of the outer loop made so far
    tokens,      \* the token vector
    builder,     \* what builder(tokens) returned with ("none" before)
    rp_notation_,
    what_happened_message_,
    item,        \* index of the next item of the notation to visit
    stack,       \* the value stack of calc::calculate
    popped_empty,   \* pop_value has found the stack empty
    top_of_empty,   \* stack.top() has been read on an empty stack
    res,         \* the Result returned
    first        \* the Result of an earlier call with the same equation

vars == <<widget, argOrder, equation, pc, c, passes, tokens, builder, rp_notation_,
          what_happened_message_, item, stack, popped_empty, top_of_empty, res, first>>

\* Outer loop passes of the tokenizer that are followed: two more than any
\* terminating run on MaxChars characters needs.
MaxPasses == MaxChars + 2

\* The state at the entry of a call, whatever the equation and the build.
Entry ==
    /\ widget = WidgetStart
    /\ c = 1
    /\ passes = 0
    /\ tokens = <<>>
    /\ builder = "none"
    /\ rp_notation_ = <<>>
    /\ what_happened_message_ = <<>>
    /\ item = 1
    /\ stack = <<>>
    /\ popped_empty = FALSE
    /\ top_of_empty = FALSE
    /\ res = NoResult
    /\ first = NoResult

\* The caller has one of the named equations or the null pointer and calls
\* calc::calculate, or has the empty string and goes on writing it.
Init ==
    /\ argOrder \in ArgOrders
    /\ \/ equation \in Examples \cup {nullptr} /\ pc = "getTokens"
       \/ equation = <<>> /\ pc = "input"
    /\ Entry

\* A call of getTokens alone on a character string.
InitTok ==
    /\ argOrder = "right_to_left"
    /\ equation \in CharStrings
    /\ pc = "tokenize"
    /\ Entry

\* ---------------------------------------------------------------- getTokens
\* One pass of the outer loop while (*c != '\0').
TokenizerPass ==
    /\ pc = "tokenize"
    /\ At(equation, c) # NUL
    /\ passes < MaxPasses
    /\ LET r == TokPass(equation, c)
       IN  /\ c' = r.c
           /\ tokens' = IF r.token = <<>> THEN tokens ELSE Append(tokens, r.token)
    /\ passes' = passes + 1
    /\ UNCHANGED <<widget, argOrder, equation, pc, builder, rp_notation_, what_happened_message_,
                   item, stack, popped_empty, top_of_empty, res, first>>

\* The outer loop ends and getTokens returns the tokens.
TokenizerReturn ==
    /\ pc = "tokenize"
    /\ At(equation, c) = NUL
    /\ pc' = "tokenized"
    /\ UNCHANGED <<widget, argOrder, equation, c, passes, tokens, builder, rp_notation_,
                   what_happened_message_, item, stack, popped_empty, top_of_empty,
                   res, first>>

\* ------------------------------------------------------------------ caller
\* The caller writes one more piece, after a blank, at the end of the
\* equation.  No piece is written after one at which the builder returns:
\* the builder looks at nothing that follows it.
WritePiece ==
    /\ pc = "input"
    /\ LET written == getTokens(equation).tokens
       IN  /\ Len(written) < MaxTokens
           /\ ScanPasses(written)
    /\ \E p \in Pieces :
           equation' = IF equation = <<>> THEN p ELSE equation \o <<" ">> \o p
    /\ UNCHANGED <<widget, argOrder, pc, c, passes, tokens, builder, rp_notation_,
                   what_happened_message_, item, stack, popped_empty, top_of_empty,
                   res, first>>

\* The caller calls calc::calculate(equation).
Call ==
    /\ pc = "input"
    /\ pc' = "getTokens"
    /\ UNCHANGED <<widget, argOrder, equation, c, passes, tokens, builder, rp_notation_,
                   what_happened_message_, item, stack, popped_empty, top_of_empty,
                   res, first>>

\* ---------------------------------------------------------- calc::calculate
\* Tokens tokens = getTokens(equation);
CalcGetTokens ==
    /\ pc = "getTokens"
    /\ LET r == getTokens(equation)
       IN  /\ tokens' = r.tokens
           /\ pc' = IF r.hang THEN "hang" ELSE "builder"
    /\ UNCHANGED <<widget, argOrder, equation, c, passes, builder, rp_notation_,
                   what_happened_message_, item, stack, popped_empty, top_of_empty,
                   res, first>>

\* RPN_Builder builder; if (!builder(tokens)) return {"Incorrect expression", 0.0, false};
\* an exception of the builder is caught by catch (const std::exception&).
CalcBuilder ==
    /\ pc = "builder"
    /\ LET b == Builder(tokens)
       IN  /\ builder' = b.status
           /\ rp_notation_' = b.rp
           /\ what_happened_message_' = b.what
           /\ pc' = IF b.status = "true" THEN "eval" ELSE "done"
           /\ res' = IF b.status = "true" THEN res
                     ELSE Result(IncorrectExpression, Num(0), FALSE)
    /\ UNCHANGED <<widget, argOrder, equation, c, passes, tokens, item, stack, popped_empty,
                   top_of_empty, first>>

\* std::visit on one item of the notation.
CalcVisit ==
    /\ pc = "eval"
    /\ item <= Len(rp_notation_)
    /\ LET arg == rp_notation_[item]
       IN  CASE arg.kind = "num" ->
                  /\ stack' = Append(stack, arg.val)
                  /\ item' = item + 1
                  /\ UNCHANGED <<pc, res, popped_empty>>
             [] arg.kind = "var" ->
                  /\ item' = item + 1
                  /\ UNCHANGED <<pc, res, stack, popped_empty>>
             [] arg.kind = "op" ->
                  \E r \in calculate_op(arg.op, stack, argOrder) :
                      /\ popped_empty' = (popped_empty \/ r.underflow)
                      /\ IF r.out.threw
                         THEN /\ stack' = r.stack
                              /\ res' = Result(r.out.what, Num(0), FALSE)
                              /\ pc' = "done"
                              /\ UNCHANGED item
                         ELSE /\ stack' = Append(r.stack, r.out.value)
                              /\ item' = item + 1
                              /\ UNCHANGED <<pc, res>>
    /\ UNCHANGED <<widget, argOrder, equation, c, passes, tokens, builder, rp_notation_,
                   what_happened_message_, top_of_empty, first>>

\* return {{}, stack.top(), true}; with a value on the stack.
CalcReturn ==
    /\ pc = "eval"
    /\ item > Len(rp_notation_)
    /\ stack # <<>>
    /\ res' = Result(<<>>, Top(stack), TRUE)
    /\ pc' = "done"
    /\ UNCHANGED <<widget, argOrder, equation, c, passes, tokens, builder, rp_notation_,
                   what_happened_message_, item, stack, popped_empty, top_of_empty, first>>

\* return {{}, stack.top(), true}; with an empty stack: top() of an empty
\* std::stack is undefined, the call returns some double or does not return.
CalcReturnEmpty ==
    /\ pc = "eval"
    /\ item > Len(rp_notation_)
    /\ stack = <<>>
    /\ top_of_empty' = TRUE
    /\ \/ \E g \in UBValues : res' = Result(<<>>, g, TRUE) /\ pc' = "done"
       \/ res' = res /\ pc' = "crash"
    /\ UNCHANGED <<widget, argOrder, equation, c, passes, tokens, builder, rp_notation_,
                   what_happened_message_, item, stack, popped_empty, first>>

\* The caller calls calc::calculate once more with the same equation.
CallAgain ==
    /\ pc = "done"
    /\ first = NoResult
    /\ first' = res
    /\ pc' = "getTokens"
    /\ c' = 1
    /\ passes' = 0
    /\ tokens' = <<>>
    /\ builder' = "none"
    /\ rp_notation_' = <<>>
    /\ what_happened_message_' = <<>>
    /\ item' = 1
    /\ stack' = <<>>
    /\ popped_empty' = FALSE
    /\ top_of_empty' = FALSE
    /\ res' = NoResult
    /\ UNCHANGED <<widget, argOrder, equation>>

\* ------------------------------------------------------------------ Widget
\* void Widget::updateEquation(QString str), called by a button.  The text of
\* an inexact value is not written on.
updateEquation(str) ==
    /\ pc = "ui"
    /\ widget.m_equation # InexactText
    /\ Len(widget.m_equation) + Len(str) <= MaxLine
    /\ widget' = [widget EXCEPT !.m_equation = widget.m_equation \o str,
                                !.equationLine = widget.m_equation \o str,
                                !.event = "edit"]
    /\ UNCHANGED <<argOrder, equation, pc, c, passes, tokens, builder, rp_notation_,
                   what_happened_message_, item, stack, popped_empty, top_of_empty,
                   res, first>>

\* The textEdited handler: the user has made str the text of the line edit.
textEdited(str) ==
    /\ pc = "ui"
    /\ widget' = [widget EXCEPT !.m_equation = str, !.equationLine = str,
                                !.event = "edit"]
    /\ UNCHANGED <<argOrder, equation, pc, c, passes, tokens, builder, rp_notation_,
                   what_happened_message_, item, stack, popped_empty, top_of_empty,
                   res, first>>

\* void Widget::backspaceEquation(QString)
backspaceEquation ==
    /\ pc = "ui"
    /\ widget.m_equation \notin {<<>>, InexactText}
    /\ widget' = [widget EXCEPT
                      !.m_equation = SubSeq(widget.m_equation, 1, Len(widget.m_equation) - 1),
                      !.equationLine = SubSeq(widget.m_equation, 1, Len(widget.m_equation) - 1),
                      !.event = "edit"]
    /\ UNCHANGED <<argOrder, equation, pc, c, passes, tokens, builder, rp_notation_,
                   what_happened_message_, item, stack, popped_empty, top_of_empty,
                   res, first>>

\* void Widget::clearEquation()
clearEquation ==
    /\ pc = "ui"
    /\ widget' = [widget EXCEPT !.m_equation = <<>>, !.equationLine = <<>>,
                                !.errorField = <<>>, !.event = "edit"]
    /\ UNCHANGED <<argOrder, equation, pc, c, passes, tokens, builder, rp_notation_,
                   what_happened_message_, item, stack, popped_empty, top_of_empty,
                   res, first>>

\* void Widget::calculate() up to its call of calc::calculate: it returns at
\* once when m_equation is empty, else it clears the error field and calls
\* calc::calculate(m_equation.toLatin1()).
Widget_calculate ==
    /\ pc = "ui"
    /\ widget.m_equation # InexactText
    /\ IF widget.m_equation = <<>>
       THEN /\ widget' = [widget EXCEPT !.event = "calculate"]
            /\ UNCHANGED <<equation, pc>>
       ELSE /\ widget' = [widget EXCEPT !.errorField = <<>>, !.event = "calculate"]
            /\ equation' = toLatin1(widget.m_equation)
            /\ pc' = "getTokens"
    /\ UNCHANGED <<argOrder, c, passes, tokens, builder, rp_notation_,
                   what_happened_message_, item, stack, popped_empty, top_of_empty,
                   res, first>>

\* The result shown without m_equation.clear(): its text follows the equation.
ShowResult_append(w, r, res_str) ==
    IF r.ok
    THEN [w EXCEPT !.m_equation = w.m_equation \o res_str,
                   !.equationLine = w.m_equation \o res_str]
    ELSE [w EXCEPT !.errorField = r.what]

\* Widget::calculate() after the call: with res.ok it clears m_equation and
\* calls updateEquation(res_str), else it sets the text of the error field.
ShowResult(w, r, res_str) ==
    IF r.ok
    THEN [w EXCEPT !.m_equation = res_str, !.equationLine = res_str]
    ELSE [w EXCEPT !.errorField = r.what]

\* void Widget::calculate() from the return of calc::calculate on; when it
\* returns, the temporary of toLatin1(), res and what the call has made are gone.
Widget_calculateReturn ==
    /\ pc = "done"
    /\ \E res_str \in QString_number(res.result) :
           widget' = ShowResult(widget, res, res_str)
    /\ pc' = "ui"
    /\ equation' = <<>>
    /\ c' = 1
    /\ passes' = 0
    /\ tokens' = <<>>
    /\ builder' = "none"
    /\ rp_notation_' = <<>>
    /\ what_happened_message_' = <<>>
    /\ item' = 1
    /\ stack' = <<>>
    /\ popped_empty' = FALSE
    /\ top_of_empty' = FALSE
    /\ res' = NoResult
    /\ UNCHANGED <<argOrder, first>>

\* The Widget at its start: no equation, the event loop waits.
InitUI ==
    /\ argOrder \in ArgOrders
    /\ equation = <<>>
    /\ pc = "ui"
    /\ Entry

\* The events of the Widget and the steps of the call its calculate makes.
NextUI ==
    \/ \E str \in ButtonTexts : updateEquation(str)
    \/ \E str \in TypedTexts : textEdited(str)
    \/ backspaceEquation
    \/ clearEquation
    \/ Widget_calculate
    \/ CalcGetTokens
    \/ CalcBuilder
    \/ CalcVisit
    \/ CalcReturn
    \/ CalcReturnEmpty
    \/ Widget_calculateReturn

SpecUI == InitUI /\ [][NextUI]_vars

\* The caller writes an equation and calls calc::calculate once.
Next ==
    \/ WritePiece
    \/ Call
    \/ CalcGetTokens
    \/ CalcBuilder
    \/ CalcVisit
    \/ CalcReturn
    \/ CalcReturnEmpty

Spec == Init /\ [][Next]_vars

\* Two calls of calc::calculate with the same equation, one after the other.
NextTwice ==
    \/ WritePiece
    \/ Call
    \/ CalcGetTokens
    \/ CalcBuilder
    \/ CalcVisit
    \/ CalcReturn
    \/ CalcReturnEmpty
    \/ CallAgain

SpecTwice == Init /\ [][NextTwice]_vars

NextTok ==
    \/ TokenizerPass
    \/ TokenizerReturn

SpecTok == InitTok /\ [][NextTok]_vars

\* ------------------------------------------------------ notions of the claims
Str_MinusMinus == <<"3", " ", "-", " ", "-", "5">>
Str_SumProduct == <<"2", " ", "+", " ", "3", " ", "*", " ", "4">>
Str_ParenProduct == <<"(", "2", " ", "+", " ", "3", ")", " ", "*", " ", "4">>
Str_Powers == <<"2", " ", "^", " ", "3", " ", "^", " ", "2">>

OperatorTokens == {<<"+">>, <<"-">>, <<"*">>, <<"/">>, <<"^">>}

IsOperand(token) == to_token_type(token).ttype \in {"number", "var"}

IsNumber(token) == to_token_type(token).ttype = "number"

\* The item an operand token is compiled to, and the one of an operator token.
OperandItem(token) ==
    IF IsNumber(token) THEN NumItem(to_token_type(token).number) ELSE VarItem(token)

OperatorItem(token) == OpItem(tokens_map_[token])

NoVariable(ts) == \A i \in 1..Len(ts) : to_token_type(ts[i]).ttype # "var"

\* The priority the claims give to a binary operator token.
ClaimedPriority(token) ==
    CASE token \in {<<"+">>, <<"-">>} -> 1
      [] token \in {<<"*">>, <<"/">>} -> 2
      [] token = <<"^">> -> 3

\* tokens is  a op1 b op2 c  with operands a, b, c and binary operators.
IsChain(ts) ==
    /\ Len(ts) = 5
    /\ IsOperand(ts[1]) /\ IsOperand(ts[3]) /\ IsOperand(ts[5])
    /\ ts[2] \in OperatorTokens /\ ts[4] \in OperatorTokens

\* tokens is  ( a op1 b ) op2 c.
IsParenChain(ts) ==
    /\ Len(ts) = 7
    /\ ts[1] = <<"(">> /\ ts[5] = <<")">>
    /\ IsOperand(ts[2]) /\ IsOperand(ts[4]) /\ IsOperand(ts[7])
    /\ ts[3] \in OperatorTokens /\ ts[6] \in OperatorTokens

\* The Results of (x op1 y) op2 z computed with x, y the left and right
\* operand of op1 and its result and z the left and right operand of op2.
LeftGrouped(x, op1, y, op2, z) ==
    UNION {IF o1.threw THEN {Result(o1.what, Num(0), FALSE)}
           ELSE {IF o2.threw THEN Result(o2.what, Num(0), FALSE)
                 ELSE Result(<<>>, o2.value, TRUE) : o2 \in BinaryLambda(op2, o1.value, z)}
           : o1 \in BinaryLambda(op1, x, y)}

\* ------------------------------------------------------------------ claims
\* C1: when the compile stage fails, calc::calculate returns ok = false, value
\* 0 and the message of the compiler (what_happened_message_), so that the
\* four compile failures give four distinguishable messages.
C1_CompilerMessage ==
    (pc = "done" /\ builder = "false")
        => res = Result(what_happened_message_, Num(0), FALSE)

\* C2 as stated: "3 - -5" evaluates to ok = true with value 8.
C2_MinusMinusIsEight ==
    (pc = "done" /\ equation = Str_MinusMinus) => res = Result(<<>>, Num(8), TRUE)

\* C2 as amended: a minus sign that directly follows an operator token
\* (+ - * / ^) makes the compilation fail, calculate returns ok = false with
\* value 0, and when the tokens before it are in order the compiler's message
\* is the token order error for a subtraction sign.
C2_MinusAfterOperator ==
    \A i \in 2..Len(tokens) :
        (/\ pc = "done"
         /\ tokens[i] = <<"-">>
         /\ tokens[i - 1] \in OperatorTokens)
        => /\ builder = "false"
           /\ res.ok = FALSE
           /\ res.result = Num(0)
           /\ ScanPasses(SubSeq(tokens, 1, i - 1)) =>
                 /\ Len(what_happened_message_) >= 5
                 /\ what_happened_message_[3] = "subtraction sign '-'"
                 /\ what_happened_message_[5] = "after the "

C2_Witness ==
    /\ pc = "done"
    /\ equation = Str_MinusMinus
    /\ builder = "false"
    /\ res.ok = FALSE

\* C3: every pass of the outer loop of the tokenizer consumes at least one
\* character of the input (or ends the loop), so that getTokens terminates.
C3_PassConsumes == [][passes' = passes + 1 => c' > c]_vars

\* C4: the top of an empty value stack is never read, and a Result with
\* ok = true is returned only with exactly one value on the value stack.
C4_ExactlyOneValue ==
    /\ top_of_empty = FALSE
    /\ (pc = "done" /\ res.ok) => Len(stack) = 1

\* C5: a div whose divisor (the right-hand operand, pushed last) is exactly
\* zero ends the call with the division-by-zero message, ok = false and value
\* 0; a div whose divisor is not zero raises no division by zero.
C5_DivisorZero ==
    [][(/\ pc = "eval"
        /\ item <= Len(rp_notation_)
        /\ rp_notation_[item] = OpItem("div")
        /\ Len(stack) >= 2
        /\ stack[Len(stack)].exact)
       => IF stack[Len(stack)].v = 0
          THEN pc' = "done" /\ res' = Result(DivisionOnZero, Num(0), FALSE)
          ELSE res'.what # DivisionOnZero]_vars

\* C6: a op1 b op2 c with operators of equal priority compiles to
\* a b op1 c op2 and evaluates as (a op1 b) op2 c; "2 ^ 3 ^ 2" yields 64.
C6_LeftAssociative ==
    (/\ pc = "done"
     /\ IsChain(tokens)
     /\ ClaimedPriority(tokens[2]) = ClaimedPriority(tokens[4]))
    => /\ rp_notation_ = <<OperandItem(tokens[1]), OperandItem(tokens[3]),
                           OperatorItem(tokens[2]), OperandItem(tokens[5]),
                           OperatorItem(tokens[4])>>
       /\ NoVariable(tokens) =>
             res \in LeftGrouped(to_token_type(tokens[1]).number, tokens_map_[tokens[2]],
                                 to_token_type(tokens[3]).number, tokens_map_[tokens[4]],
                                 to_token_type(tokens[5]).number)
       /\ equation = Str_Powers => res = Result(<<>>, Num(64), TRUE)

\* C7: with the priorities add, sub 1 < mul, div 2 < pow 3 < unary minus 4,
\* a op1 b op2 c with priority(op2) > priority(op1) compiles to a b c op2 op1
\* and - a op b compiles to a un_min b op; a parenthesized ( a op1 b ) is
\* emitted whole, a b op1, before the operator that follows it is applied;
\* "2 + 3 * 4" yields 14 and "(2 + 3) * 4" yields 20.
C7_Precedence ==
    /\ (/\ builder = "true"
        /\ IsChain(tokens)
        /\ ClaimedPriority(tokens[4]) > ClaimedPriority(tokens[2]))
       => rp_notation_ = <<OperandItem(tokens[1]), OperandItem(tokens[3]),
                           OperandItem(tokens[5]), OperatorItem(tokens[4]),
                           OperatorItem(tokens[2])>>
    /\ (/\ builder = "true"
        /\ Len(tokens) = 4
        /\ tokens[1] = <<"-">> /\ IsOperand(tokens[2])
        /\ tokens[3] \in OperatorTokens /\ IsOperand(tokens[4]))
       => rp_notation_ = <<OperandItem(tokens[2]), OpItem("un_min"),
                           OperandItem(tokens[4]), OperatorItem(tokens[3])>>
    /\ (/\ builder = "true"
        /\ Len(tokens) = 5
        /\ tokens[1] = <<"(">> /\ IsOperand(tokens[2]) /\ tokens[3] \in OperatorTokens
        /\ IsOperand(tokens[4]) /\ tokens[5] = <<")">>)
       => rp_notation_ = <<OperandItem(tokens[2]), OperandItem(tokens[4]),
                           OperatorItem(tokens[3])>>
    /\ (builder = "true" /\ IsParenChain(tokens))
       => rp_notation_ = <<OperandItem(tokens[2]), OperandItem(tokens[4]),
                           OperatorItem(tokens[3]), OperandItem(tokens[7]),
                           OperatorItem(tokens[6])>>
    /\ (pc = "done" /\ equation = Str_SumProduct) => res = Result(<<>>, Num(14), TRUE)
    /\ (pc = "done" /\ equation = Str_ParenProduct) => res = Result(<<>>, Num(20), TRUE)

C7_Witness ==
    /\ pc = "done"
    /\ equation = Str_ParenProduct
    /\ IsParenChain(tokens)
    /\ res = Result(<<>>, Num(20), TRUE)

\* C8: for sub, div and pow the evaluator computes a - b, a / b, a ** b with
\* a the operand pushed last (the top of the value stack) and b the operand
\* pushed before it; [2, 3, sub] leaves 3 - 2 = 1.
C8_LastPushedIsLeft ==
    [][(/\ pc = "eval"
        /\ item <= Len(rp_notation_)
        /\ rp_notation_[item] \in {OpItem("sub"), OpItem("div"), OpItem("pow")}
        /\ Len(stack) >= 2)
       => \E o \in BinaryLambda(rp_notation_[item].op,
                                stack[Len(stack)], stack[Len(stack) - 1]) :
              IF o.threw
              THEN pc' = "done" /\ res' = Result(o.what, Num(0), FALSE)
              ELSE /\ pc' = "eval"
                   /\ stack' = Append(SubSeq(stack, 1, Len(stack) - 2), o.value)]_vars

\* C9: two calls of calc::calculate with the same input string return the
\* same ok flag, the same value and the same message.
C9_SameResult ==
    (pc = "done" /\ first # NoResult) => res = first

\* C10: for a token sequence without a variable that compiles successfully
\* the evaluation never pops an empty value stack, and when every item of the
\* notation has been processed exactly one value is on the value stack.
C10_NoUnderflow ==
    (builder = "true" /\ NoVariable(tokens))
    => /\ popped_empty = FALSE
       /\ top_of_empty = FALSE
       /\ item > Len(rp_notation_) => Len(stack) = 1

\* ------------------------------------------- notions of the compiler claims
\* The kind the claims give to token i of ts: a minus sign is a unary minus
\* as the first token or directly after an open parenthesis.
Kind(ts, i) ==
    IF ts[i] = <<"-">>
    THEN (IF i = 1 \/ ts[i - 1] = <<"(">> THEN "un_min" ELSE "sub")
    ELSE to_token_type(ts[i]).ttype

PrevKind(ts, i) == IF i = 1 THEN "undefined" ELSE Kind(ts, i - 1)

\* Token i of ts is permitted by the adjacency table after the token before it.
Permitted(ts, i) == Kind(ts, i) \in prev_curr_token_map_[PrevKind(ts, i)]

AllPermitted(ts) == \A i \in 1..Len(ts) : Permitted(ts, i)

HasOperand(ts) == \E i \in 1..Len(ts) : IsOperand(ts[i])

Opens(ts, n) == Cardinality({i \in 1..n : ts[i] = <<"(">>})

Closes(ts, n) == Cardinality({i \in 1..n : ts[i] = <<")">>})

\* Some prefix of ts holds more close than open parentheses.
ExtraClose(ts) == \E n \in 1..Len(ts) : Closes(ts, n) > Opens(ts, n)

\* The text the messages of the compiler give to token i of ts.
TokenText(ts, i) == ttype_to_str(Kind(ts, i), ts[i])

Str_OpenSum == <<"(", "2", " ", "+", " ", "3">>
Str_SumClose == <<"2", " ", "+", " ", "3", ")">>
Str_PlusTwo == <<"+", " ", "2">>
Str_TwoThree == <<"2", " ", "3">>

\* C11: for tokens that pass every adjacency check and hold an operand, the
\* compilation fails with "extra close parentheses" iff some prefix holds more
\* close than open parentheses, else fails with "extra open parentheses" iff
\* the whole sequence holds more open than close parentheses, and else
\* succeeds; in both failures calc::calculate returns ok = false.
C11_ParenBalance ==
    (builder # "none" /\ AllPermitted(tokens) /\ HasOperand(tokens))
    => IF ExtraClose(tokens)
       THEN /\ builder = "false"
            /\ what_happened_message_ = <<"Found extra ", "close", " parentheses.">>
            /\ pc = "done" /\ res.ok = FALSE
       ELSE IF Opens(tokens, Len(tokens)) > Closes(tokens, Len(tokens))
       THEN /\ builder = "false"
            /\ what_happened_message_ = <<"Found extra ", "open", " parentheses.">>
            /\ pc = "done" /\ res.ok = FALSE
       ELSE builder = "true"

C11_Witness ==
    /\ pc = "done"
    /\ equation = Str_SumClose
    /\ AllPermitted(tokens) /\ ExtraClose(tokens)
    /\ builder = "false"
    /\ what_happened_message_ = <<"Found extra ", "close", " parentheses.">>
    /\ res.ok = FALSE

Blank(eq) == eq = nullptr \/ \A i \in 1..Len(eq) : eq[i] \in {" ", "\t", "\n", "\r"}

\* C13: a null, empty or white space only equation gives no token, and
\* calc::calculate returns ok = false and value 0 with the "no operands"
\* description of the failure.
C13_BlankNoOperands ==
    (pc = "done" /\ Blank(equation))
    => /\ tokens = <<>>
       /\ res = Result(<<"Expression does not contain any operands.">>, Num(0), FALSE)

\* C14: every Result calc::calculate returns has ok = true and an empty message,
\* or ok = false, a message that is not empty and value 0; and every call
\* ends with such a Result, whatever fails in it.
C14_ResultShape ==
    /\ pc = "done" =>
          \/ res.ok /\ res.what = <<>>
          \/ ~res.ok /\ res.what # <<>> /\ res.result = Num(0)
    /\ pc \notin {"crash", "hang"}

\* Token i of ts is a minus sign that is the first token or directly follows
\* an open parenthesis.
UnaryMinusAt(ts, i) == ts[i] = <<"-">> /\ (i = 1 \/ ts[i - 1] = <<"(">>)

\* Number of items of the notation rp that are the operation op.
CountOp(rp, op) == Cardinality({i \in 1..Len(rp) : rp[i] = OpItem(op)})

Str_MinusThreePlusFive == <<"-", "3", " ", "+", " ", "5">>
Str_ThreeMinusParen == <<"3", " ", "-", " ", "(", "-", "5", ")">>

\* C15: a minus sign is compiled as the unary minus exactly when it is the
\* first token or directly follows an open parenthesis, and as the binary
\* subtraction otherwise: such a minus is never rejected by the order check,
\* and a successful compilation emits one un_min per such minus and one sub
\* per other minus; the unary minus is applied before a following binary
\* operator, - a op b compiles to a un_min b op, and "-3 + 5" yields 2.
C15_MinusKinds ==
    /\ \A i \in 1..Len(tokens) :
          (/\ builder # "none"
           /\ UnaryMinusAt(tokens, i)
           /\ ScanPasses(SubSeq(tokens, 1, i - 1)))
          => ScanPasses(SubSeq(tokens, 1, i))
    /\ builder = "true" =>
          /\ CountOp(rp_notation_, "un_min")
                = Cardinality({i \in 1..Len(tokens) : UnaryMinusAt(tokens, i)})
          /\ CountOp(rp_notation_, "sub")
                = Cardinality({i \in 1..Len(tokens) :
                                  tokens[i] = <<"-">> /\ ~UnaryMinusAt(tokens, i)})
    /\ (/\ builder # "none"
        /\ Len(tokens) = 4
        /\ tokens[1] = <<"-">> /\ IsOperand(tokens[2])
        /\ tokens[3] \in OperatorTokens /\ IsOperand(tokens[4]))
       => /\ builder = "true"
          /\ rp_notation_ = <<OperandItem(tokens[2]), OpItem("un_min"),
                              OperandItem(tokens[4]), OperatorItem(tokens[3])>>
    /\ (builder # "none" /\ equation = Str_ThreeMinusParen)
       => /\ builder = "true"
          /\ rp_notation_ = <<NumItem(Num(3)), NumItem(Num(5)), OpItem("un_min"),
                              OpItem("sub")>>
    /\ (pc = "done" /\ equation = Str_MinusThreePlusFive)
       => res = Result(<<>>, Num(2), TRUE)

C15_Witness ==
    /\ pc = "done"
    /\ equation = Str_MinusThreePlusFive
    /\ UnaryMinusAt(tokens, 1)
    /\ rp_notation_ = <<NumItem(Num(3)), OpItem("un_min"), NumItem(Num(5)), OpItem("add")>>
    /\ res = Result(<<>>, Num(2), TRUE)

SqrtToken == <<"s", "q", "r", "t">>

Str_Sqrt16 == <<"s", "q", "r", "t", "(", "1", "6", ")">>
Str_SqrtSum == <<"s", "q", "r", "t", "(", "2", "+", "2", ")">>
Str_SqrtPow == <<"s", "q", "r", "t", "(", "4", ")", " ", "^", " ", "2">>

\* C16: a sqrt token the scan comes to that is not directly followed by an
\* open parenthesis makes the compilation fail with the token order error;
\* sqrt ( a ) compiles to a sqrt, and the sqrt operation is emitted before an
\* operator that follows the close parenthesis; "sqrt(16)" yields 4 and
\* "sqrt(2+2)" yields 2.
C16_SqrtCall ==
    /\ \A i \in 1..Len(tokens) :
          (/\ builder # "none"
           /\ tokens[i] = SqrtToken
           /\ ScanPasses(SubSeq(tokens, 1, i))
           /\ (i = Len(tokens) \/ tokens[i + 1] # <<"(">>))
          => /\ builder = "false"
             /\ Len(what_happened_message_) >= 3
             /\ what_happened_message_[1]
                  = "Incorrect order of operands and operations in the expression.\n"
    /\ (/\ builder # "none"
        /\ Len(tokens) = 4
        /\ tokens[1] = SqrtToken /\ tokens[2] = <<"(">>
        /\ IsOperand(tokens[3]) /\ tokens[4] = <<")">>)
       => /\ builder = "true"
          /\ rp_notation_ = <<OperandItem(tokens[3]), OpItem("sqrt")>>
    /\ (builder # "none" /\ equation = Str_SqrtSum)
       => rp_notation_ = <<NumItem(Num(2)), NumItem(Num(2)), OpItem("add"), OpItem("sqrt")>>
    /\ (builder # "none" /\ equation = Str_SqrtPow)
       => rp_notation_ = <<NumItem(Num(4)), OpItem("sqrt"), NumItem(Num(2)), OpItem("pow")>>
    /\ (pc = "done" /\ equation = Str_Sqrt16) => res = Result(<<>>, Num(4), TRUE)
    /\ (pc = "done" /\ equation = Str_SqrtSum) => res = Result(<<>>, Num(2), TRUE)

\* The part of C16 that is left when the sqrt token is followed by a token.
C16_SqrtCallFollowed ==
    /\ \A i \in 1..(Len(tokens) - 1) :
          (/\ builder # "none"
           /\ tokens[i] = SqrtToken
           /\ ScanPasses(SubSeq(tokens, 1, i))
           /\ tokens[i + 1] # <<"(">>)
          => /\ builder = "false"
             /\ what_happened_message_[1]
                  = "Incorrect order of operands and operations in the expression.\n"
    /\ (builder # "none" /\ equation = Str_SqrtPow)
       => rp_notation_ = <<NumItem(Num(4)), OpItem("sqrt"), NumItem(Num(2)), OpItem("pow")>>
    /\ (pc = "done" /\ equation = Str_Sqrt16) => res = Result(<<>>, Num(4), TRUE)
    /\ (pc = "done" /\ equation = Str_SqrtSum) => res = Result(<<>>, Num(2), TRUE)

HasVariable(ts) == \E i \in 1..Len(ts) : to_token_type(ts[i]).ttype = "var"

\* C17: no expression with a variable token yields ok = true: when the
\* compilation succeeds on tokens that hold a variable, the call ends with a
\* Result that has ok = false.
C17_VariableNeverOk ==
    (builder = "true" /\ HasVariable(tokens))
    => /\ pc = "done" => res.ok = FALSE
       /\ pc # "crash"

\* ------------------------------------------ notions of the tokenizer claim
SymbolChars == {"+", "-", "*", "/", "^", "(", ")"}

\* The characters of the tokens of toks, one token after the other.
RECURSIVE Flatten(_)
Flatten(toks) == IF toks = <<>> THEN <<>> ELSE Head(toks) \o Flatten(Tail(toks))

NotSpace(ch) == ch \notin {" ", "\t", "\n", "\r"}

\* The one-character symbol tokens of toks, in order.
SymbolTokens(toks) == SelectSeq(toks, LAMBDA t : Len(t) = 1 /\ t[1] \in SymbolChars)

\* The symbol characters of s, in order, each as a one-character token.
SymbolsOf(s) ==
    LET syms == SelectSeq(s, LAMBDA ch : ch \in SymbolChars)
    IN  [i \in 1..Len(syms) |-> <<syms[i]>>]

\* Character k of token t is the sign of an exponent: t starts with a digit
\* or a point, and the sign directly follows an exponent letter and directly
\* precedes a digit.
ExponentSign(t, k) ==
    /\ t[k] \in {"+", "-"}
    /\ isdigit(t[1]) \/ t[1] = "."
    /\ k > 1 /\ t[k - 1] \in {"e", "E"}
    /\ k < Len(t) /\ isdigit(t[k + 1])

Str_TwoExpTwo == <<"2", "e", "+", "2">>

\* C18 as stated: when getTokens returns, each symbol character of the input,
\* the sign of an exponent included, is a one-character token of its own.
C18_EverySymbolOwnToken ==
    pc = "tokenized" => SymbolTokens(tokens) = SymbolsOf(equation)

\* C18 as amended: the tokens hold the characters of the consumed part of the
\* input that are not white space, in order, and a symbol character is a
\* one-character token of its own unless it is the sign of an exponent of a
\* number token, which strtod takes into the number ("2e+2" is one token).
C18_SymbolOrExponent ==
    /\ Flatten(tokens) = SelectSeq(SubSeq(equation, 1, c - 1), NotSpace)
    /\ \A t \in 1..Len(tokens) : \A k \in 1..Len(tokens[t]) :
          tokens[t][k] \in SymbolChars
          => Len(tokens[t]) = 1 \/ ExponentSign(tokens[t], k)

C18_Witness ==
    /\ pc = "tokenized"
    /\ equation = Str_TwoExpTwo
    /\ tokens = <<Str_TwoExpTwo>>

\* C19: the operand count is checked after the whole scan and before the
\* operation stack is emptied: tokens that pass every adjacency check and
\* hold no operand ("(", "-", "sqrt(", "((-") fail with "no operands" and
\* never with "extra open parentheses", while a token that fails a check of
\* the scan is reported although no operand was seen (")" and "+").
C19_CountBeforeDrain ==
    /\ (builder # "none" /\ AllPermitted(tokens) /\ ~HasOperand(tokens))
       => /\ builder = "false"
          /\ what_happened_message_ = <<"Expression does not contain any operands.">>
          /\ pc = "done" /\ res.ok = FALSE
    /\ (builder # "none" /\ ~AllPermitted(tokens) /\ ~HasOperand(tokens))
       => /\ builder = "false"
          /\ what_happened_message_[1]
               = "Incorrect order of operands and operations in the expression.\n"
    /\ (/\ builder # "none"
        /\ tokens \in {<<<<"(">>>>, <<<<"-">>>>, <<SqrtToken, <<"(">>>>,
                       <<<<"(">>, <<"(">>, <<"-">>>>})
       => what_happened_message_ = <<"Expression does not contain any operands.">>
    /\ (builder # "none" /\ tokens \in {<<<<")">>>>, <<<<"+">>>>})
       => /\ Len(what_happened_message_) = 5
          /\ what_happened_message_[5] = "the first in an expression."

C19_Witness ==
    /\ pc = "done"
    /\ tokens = <<<<"(">>, <<"(">>, <<"-">>>>
    /\ builder = "false"
    /\ what_happened_message_ = <<"Expression does not contain any operands.">>

\* C20: when Calculate is pressed with an equation that is not empty, and the
\* Result is not ok, the error field shows Result.what and m_equation and the
\* line edit are as they were; when the Result is ok, both hold the text of
\* the value and the error field is empty; when the equation is empty,
\* nothing changes.
C20_CalculateStep ==
    [][/\ (pc = "ui" /\ widget'.event = "calculate")
          => /\ widget'.m_equation = widget.m_equation
             /\ widget'.equationLine = widget.equationLine
             /\ IF widget.m_equation = <<>>
                THEN /\ widget'.errorField = widget.errorField
                     /\ pc' = "ui"
                     /\ equation' = equation /\ res' = res
                ELSE /\ pc' = "getTokens"
                     /\ equation' = toLatin1(widget.m_equation)
       /\ pc \notin {"ui", "done"}
          => /\ widget' = widget
             /\ equation' = equation
       /\ pc = "done"
          => /\ pc' = "ui"
             /\ IF res.ok
                THEN /\ widget'.m_equation \in QString_number(res.result)
                     /\ widget'.equationLine = widget'.m_equation
                     /\ widget'.errorField = <<>>
                ELSE /\ widget'.errorField = res.what
                     /\ widget'.m_equation = widget.m_equation
                     /\ widget'.equationLine = widget.equationLine
                     /\ widget.m_equation # <<>>
                     /\ toLatin1(widget.m_equation) = equation]_vars

C20_Witness ==
    /\ pc = "ui"
    /\ widget.event = "calculate"
    /\ widget.m_equation = <<"2", " ", "/", " ">>
    /\ widget.equationLine = widget.m_equation
    /\ widget.errorField = <<"Incorrect expression">>

\* ------------------------------------- notions of the claims on the stack
\* The kinds the claims allow on the operation stack.
StackKinds == {"open", "sqrt", "un_min", "add", "sub", "mul", "div", "pow"}

\* The builder b has raised no fault, its operation stack holds allowed kinds
\* only, and its previous kind is a key of the adjacency table.
NoFault(b) ==
    /\ b.status # "throw"
    /\ \A k \in 1..Len(b.operations) : b.operations[k] \in StackKinds
    /\ b.prev_ttype \in DOMAIN prev_curr_token_map_

\* The builder after the scan of the first i tokens of ts.
ScanOf(ts, i) == BuilderScan(BuilderStart, SubSeq(ts, 1, i), 1)

\* C21: for every token sequence the compiler raises no "Incorrect
\* expression" fault: after each token of the scan the operation stack holds
\* only open, sqrt, un_min, add, sub, mul, div and pow, the previous kind is a
\* key of the adjacency table, no conversion or priority fails in the scan,
\* and none fails when the stack is emptied.
C21_NoInternalFault ==
    builder # "none"
    => /\ builder # "throw"
       /\ \A i \in 0..Len(tokens) : NoFault(ScanOf(tokens, i))
       /\ NoFault(Builder(tokens))

C21_Witness ==
    /\ builder = "true"
    /\ equation = Str_SqrtSum
    /\ ScanOf(tokens, 4).operations = <<"sqrt", "open", "add">>
    /\ NoFault(Builder(tokens))

OperationKinds == {"un_min", "add", "sub", "mul", "div", "pow", "sqrt"}

\* The operand tokens of ts, in order, each as the item it is compiled to.
OperandItems(ts) ==
    LET operands == SelectSeq(ts, IsOperand)
    IN  [i \in 1..Len(operands) |-> OperandItem(operands[i])]

\* The items of rp that are no operation, in order.
NonOperations(rp) == SelectSeq(rp, LAMBDA it : it.kind # "op")

\* Number of tokens of ts whose kind is k.
CountKind(ts, k) == Cardinality({i \in 1..Len(ts) : Kind(ts, i) = k})

\* C22: in a successful compilation the notation holds the operand tokens
\* once each and in the order of the input, one operation per operator token
\* (un_min, add, sub, mul, div, pow, sqrt) and no item for a parenthesis, and
\* the operation stack is empty when the compilation returns true.
C22_Conservation ==
    builder = "true"
    => /\ NonOperations(rp_notation_) = OperandItems(tokens)
       /\ \A k \in OperationKinds : CountOp(rp_notation_, k) = CountKind(tokens, k)
       /\ \A i \in 1..Len(rp_notation_) :
             rp_notation_[i].kind = "op" => rp_notation_[i].op \in OperationKinds
       /\ Len(rp_notation_) + CountKind(tokens, "open") + CountKind(tokens, "close")
             = Len(tokens)
       /\ Builder(tokens).operations = <<>>

C22_Witness ==
    /\ builder = "true"
    /\ equation = Str_ParenProduct
    /\ Len(tokens) = 7
    /\ Len(rp_notation_) = 5
    /\ Builder(tokens).operations = <<>>

====
